---- MODULE Spec2Model ----
(***************************************************************************)
(* Model of src/src/App.tsx, the shipping cost calculator: the rate        *)
(* tables, the helpers roundUpToHalfKg / billedWeight / lookupRate, the    *)
(* React component's state with its input handlers, the carton and calc    *)
(* memos and the render of the preset panel.                               *)
(*                                                                         *)
(* JavaScript numbers are modelled as exact fractions n/d with d >= 0:     *)
(* d = 0 encodes the non-finite values (1/0 = Infinity, -1/0 = -Infinity,  *)
(* 0/0 = NaN).  Rounding error of IEEE doubles is not modelled.            *)
(***************************************************************************)
EXTENDS Integers, Sequences, FiniteSets, TLC

(* ---------------- bounds of the explored inputs ---------------- *)
\* pairs texts "-1", "0", ..., up to this integer are typed into the pairs input
MaxPairsInput == 11
\* the helper specification probes billed weights of up to this many half kilograms
MaxBilledHalf == 42
\* the helper specification probes raw weights of up to this many half kilograms
MaxRawHalf == 7

(* ---------------- JavaScript numbers ---------------- *)
Abs(x) == IF x < 0 THEN -x ELSE x

Sign(x) == IF x < 0 THEN -1 ELSE IF x > 0 THEN 1 ELSE 0

RECURSIVE GCD(_, _)
GCD(a, b) == IF b = 0 THEN a ELSE GCD(b, a % b)

\* the number n/d in lowest terms with a non-negative denominator
Num(n, d) ==
  IF d = 0 THEN [ty |-> "number", n |-> Sign(n), d |-> 0]
  ELSE LET g == GCD(Abs(n), Abs(d))
           s == Sign(d)
       IN [ty |-> "number", n |-> (s * n) \div g, d |-> (s * d) \div g]

Whole(k) == Num(k, 1)

NaN == Num(0, 0)

Infinity == Num(1, 0)

Undefined == [ty |-> "undefined"]

Str(s) == [ty |-> "string", s |-> s]

TypeOf(v) == v.ty

IsNaN(x) == x.n = 0 /\ x.d = 0

Add(a, b) == Num(a.n * b.d + b.n * a.d, a.d * b.d)

Mul(a, b) == Num(a.n * b.n, a.d * b.d)

Div(a, b) == Num(a.n * b.d * Sign(b.n), a.d * Abs(b.n))

\* a < b, false when either side is NaN
Lt(a, b) == ~IsNaN(a) /\ ~IsNaN(b) /\ a # b /\ a.n * b.d < b.n * a.d

\* a <= b, false when either side is NaN
Le(a, b) == ~IsNaN(a) /\ ~IsNaN(b) /\ (a = b \/ a.n * b.d < b.n * a.d)

\* Math.max of two numbers
MathMax(a, b) == IF IsNaN(a) \/ IsNaN(b) THEN NaN ELSE IF Lt(a, b) THEN b ELSE a

\* Math.min of two numbers
MathMin(a, b) == IF IsNaN(a) \/ IsNaN(b) THEN NaN ELSE IF Lt(b, a) THEN b ELSE a

\* Math.ceil
MathCeil(x) == IF x.d = 0 THEN x ELSE Whole(-((-x.n) \div x.d))

\* x || y on numbers: 0 and NaN are falsy
OrElse(x, y) == IF IsNaN(x) \/ x = Whole(0) THEN y ELSE x

(* ---------------- text of an input element ---------------- *)
EmptyText == [kind |-> "empty"]

GarbageText == [kind |-> "garbage"]

NumText(v) == [kind |-> "numeric", v |-> v]

\* Number(e.target.value)
Number(text) ==
  CASE text.kind = "empty" -> Whole(0)
    [] text.kind = "garbage" -> NaN
    [] text.kind = "numeric" -> text.v

(* ---------------- rate tables (RMB) ---------------- *)
\* the i-th declared entry of each table has the key i/2 kg
TableOf(prices) == [i \in 1..Len(prices) |-> [key |-> Num(i, 2), price |-> Whole(prices[i])]]

UPS_FAST ==
  TableOf(<<310, 347, 388, 425, 438, 456, 510, 565, 612, 656,
            706, 752, 812, 870, 921, 978, 1034, 1081, 1124, 1161,
            1161, 1209, 1246, 1294, 1331, 1379, 1415, 1493, 1530, 1584,
            1594, 1640, 1678, 1726, 1763, 1811, 1842, 1888, 1925, 1967>>)

UPS_SLOW ==
  TableOf(<<150, 185, 220, 256, 292, 326, 360, 394, 428, 482,
            516, 560, 594, 638, 672, 716, 750, 794, 828, 872,
            906, 950, 984, 1028, 1062, 1106, 1140, 1184, 1218, 1262,
            1296, 1340, 1374, 1418, 1452, 1496, 1530, 1574, 1608, 1652>>)

FEDEX ==
  TableOf(<<240, 255, 280, 305, 330, 359, 392, 426, 459, 512,
            577, 623, 659, 705, 742, 788, 824, 870, 897, 953,
            1009, 1054, 1089, 1135, 1183, 1227, 1247, 1308, 1391, 1438>>)

\* mutant: the slope and the base of the linear fit swapped
uspsSinglesPerPair_Swapped(kgPerPair) == Add(Mul(Whole(64), kgPerPair), Whole(100))

\* USPS singles (RMB) per pair
uspsSinglesPerPair(kgPerPair) == Add(Mul(Whole(100), kgPerPair), Whole(64))

(* ---------------- preset cartons (cm) ---------------- *)
Box(l2, w2, h2) == [L |-> Num(l2, 2), W |-> Num(w2, 2), H |-> Num(h2, 2)]

\* dimensions are written in half centimetres
PRESET_CARTONS ==
  <<Box(74, 54, 29), Box(74, 54, 55), Box(74, 54, 81), Box(74, 105, 55),
    Box(74, 54, 133), Box(74, 105, 81), Box(74, 54, 185), Box(74, 105, 107),
    Box(74, 156, 81), Box(74, 105, 133)>>

\* PRESET_CARTONS[p]: undefined unless p is one of the declared integer keys
PresetAt(p) ==
  IF p.d = 1 /\ p.n \in DOMAIN PRESET_CARTONS THEN PRESET_CARTONS[p.n] ELSE Undefined

(* ---------------- helpers ---------------- *)
\* Math.round: halves round up
MathRound(x) == IF x.d = 0 THEN x ELSE Whole((2 * x.n + x.d) \div (2 * x.d))

\* mutant: rounds to the nearest half kilogram
roundUpToHalfKg_Nearest(w) == Div(MathRound(Mul(w, Whole(2))), Whole(2))

roundUpToHalfKg(w) == Div(MathCeil(Mul(w, Whole(2))), Whole(2))

\* mutant: bills the smaller of the two weights
billedWeight_Smaller(actualKg, dimKg) == roundUpToHalfKg(MathMin(actualKg, dimKg))

billedWeight(actualKg, dimKg) == roundUpToHalfKg(MathMax(actualKg, dimKg))

\* a key's property name is an array index when the key is a non-negative integer
IsIndexKey(k) == k.d = 1 /\ k.n >= 0

\* Object.keys(table).map(parseFloat): the integer-like keys in ascending order,
\* then the other keys in declaration order
ObjectKeys(table) ==
  LET all == [i \in DOMAIN table |-> table[i].key]
  IN SortSeq(SelectSeq(all, IsIndexKey), LAMBDA a, b : a.n < b.n)
       \o SelectSeq(all, LAMBDA k : ~IsIndexKey(k))

\* mutant: the keys are scanned in storage order
SortAscending_StorageOrder(keys) == keys

\* .sort((a, b) => a - b)
SortAscending(keys) == SortSeq(keys, Lt)

\* table[k]
TableAt(table, k) ==
  IF \E i \in DOMAIN table : table[i].key = k
  THEN table[CHOOSE i \in DOMAIN table : table[i].key = k].price
  ELSE Undefined

\* the denominator of the tolerance 1e-9
EpsDenominator == 1000000000

\* billed <= k + 1e-9, computed on the difference billed - k = n/d so that no
\* product overflows: n/d <= 1/EpsDenominator
WithinTier(billed, k) ==
  LET n == billed.n * k.d - k.n * billed.d
      d == billed.d * k.d
  IN /\ ~IsNaN(billed)
     /\ ~IsNaN(k)
     /\ (n <= 0 \/ (d # 0 /\ d \div EpsDenominator >= n))

\* mutant: a billed weight beyond the table gets the top tier's price
RECURSIVE ScanTiers_ClampToTop(_, _, _, _)
ScanTiers_ClampToTop(table, keys, i, billed) ==
  IF i > Len(keys) THEN TableAt(table, keys[Len(keys)])
  ELSE IF WithinTier(billed, keys[i]) THEN TableAt(table, keys[i])
  ELSE ScanTiers_ClampToTop(table, keys, i + 1, billed)

\* for (const k of keys) if (billed <= k + 1e-9) return table[k]; return undefined
RECURSIVE ScanTiers(_, _, _, _)
ScanTiers(table, keys, i, billed) ==
  IF i > Len(keys) THEN Undefined
  ELSE IF WithinTier(billed, keys[i]) THEN TableAt(table, keys[i])
  ELSE ScanTiers(table, keys, i + 1, billed)

lookupRate(table, billed) == ScanTiers(table, SortAscending(ObjectKeys(table)), 1, billed)

(* ---------------- component state ---------------- *)
VARIABLES
  pairs,        \* useState(2)
  totalWeight,  \* useState(3.2), kg of all pairs together
  mode,         \* useState("Preset")
  customL,      \* useState(37)
  customW,      \* useState(26)
  customH,      \* useState(28)
  fx,           \* useState(0)
  probe         \* a direct call of a helper: its arguments and its result

vars == <<pairs, totalWeight, mode, customL, customW, customH, fx, probe>>

appVars == <<pairs, totalWeight, mode, customL, customW, customH, fx>>

(* ---------------- the memos ---------------- *)
\* PRESET_CARTONS[pairs] ?? PRESET_CARTONS[1] in Preset mode, else the custom box
Carton(m, p, l, w, h) ==
  IF m = "Preset"
  THEN IF PresetAt(p) # Undefined THEN PresetAt(p) ELSE PRESET_CARTONS[1]
  ELSE [L |-> l, W |-> w, H |-> h]

RECURSIVE Pow10(_)
Pow10(k) == IF k = 0 THEN 1 ELSE 10 * Pow10(k - 1)

\* x.toFixed(digits), as the number the text denotes (halves round away from zero)
ToFixed(x, digits) ==
  IF x.d = 0 THEN x
  ELSE LET scale == Pow10(digits)
       IN Num(Sign(x.n) * ((2 * Abs(x.n) * scale + x.d) \div (2 * x.d)), scale)

\* the row a carrier contributes to calc.rows
Row(carrier, billedKg, costRmb, note) ==
  [carrier |-> carrier, billedKg |-> billedKg, costRmb |-> costRmb, note |-> note]

\* mutant: r.costRmb <= ..., so the last row of a tie wins
RECURSIVE ReduceMin_LastOnTie(_, _, _)
ReduceMin_LastOnTie(rs, i, min) ==
  IF i > Len(rs) THEN min
  ELSE LET r == rs[i]
           bound == IF min = Undefined THEN Infinity ELSE min.costRmb
       IN ReduceMin_LastOnTie(rs, i + 1, IF Le(r.costRmb, bound) THEN r ELSE min)

\* .reduce((min, r) => (r.costRmb < (min?.costRmb ?? Infinity) ? r : min), undefined)
RECURSIVE ReduceMin(_, _, _)
ReduceMin(rs, i, min) ==
  IF i > Len(rs) THEN min
  ELSE LET r == rs[i]
           bound == IF min = Undefined THEN Infinity ELSE min.costRmb
       IN ReduceMin(rs, i + 1, IF Lt(r.costRmb, bound) THEN r ELSE min)

\* rows.filter((r) => typeof r.costRmb === "number").reduce(...)
Best(rows) ==
  ReduceMin(SelectSeq(rows, LAMBDA r : TypeOf(r.costRmb) = "number"), 1, Undefined)

\* mutant: the FedEx DIM weight is computed with the UPS divisor
Calc_OneDivisor(p, tw, c) ==
  LET avgPerPair == Div(tw, MathMax(Whole(1), p))
      uspsTotal == Mul(p, uspsSinglesPerPair(avgPerPair))
      vol == Mul(Mul(c.L, c.W), c.H)
      dimFast == Div(vol, Whole(6000))
      dimSlow == Div(vol, Whole(6000))
      dimFdx == Div(vol, Whole(6000))
      billedFast == billedWeight(tw, dimFast)
      billedSlow == billedWeight(tw, dimSlow)
      billedFdx == billedWeight(tw, dimFdx)
      priceFast == lookupRate(UPS_FAST, billedFast)
      priceSlow == lookupRate(UPS_SLOW, billedSlow)
      priceFdx == lookupRate(FEDEX, billedFdx)
      rows == <<Row("USPS (singles)", Str("- (per-pair)"), uspsTotal,
                    [pairs |-> p, avg |-> ToFixed(avgPerPair, 2)]),
                Row("UPS Fast", billedFast, priceFast, Str("DIM /6000")),
                Row("UPS Slow", billedSlow, priceSlow, Str("DIM /6000")),
                Row("FedEx (HK)", billedFdx, priceFdx, Str("DIM /5000 (<=15 kg)"))>>
  IN [avgPerPair |-> avgPerPair, vol |-> vol,
      dimFast |-> dimFast, dimSlow |-> dimSlow, dimFdx |-> dimFdx,
      billedFast |-> billedFast, billedSlow |-> billedSlow, billedFdx |-> billedFdx,
      rows |-> rows, best |-> Best(rows)]

Calc(p, tw, c) ==
  LET avgPerPair == Div(tw, MathMax(Whole(1), p))
      uspsTotal == Mul(p, uspsSinglesPerPair(avgPerPair))
      vol == Mul(Mul(c.L, c.W), c.H)
      dimFast == Div(vol, Whole(6000))
      dimSlow == Div(vol, Whole(6000))
      dimFdx == Div(vol, Whole(5000))
      billedFast == billedWeight(tw, dimFast)
      billedSlow == billedWeight(tw, dimSlow)
      billedFdx == billedWeight(tw, dimFdx)
      priceFast == lookupRate(UPS_FAST, billedFast)
      priceSlow == lookupRate(UPS_SLOW, billedSlow)
      priceFdx == lookupRate(FEDEX, billedFdx)
      rows == <<Row("USPS (singles)", Str("- (per-pair)"), uspsTotal,
                    [pairs |-> p, avg |-> ToFixed(avgPerPair, 2)]),
                Row("UPS Fast", billedFast, priceFast, Str("DIM /6000")),
                Row("UPS Slow", billedSlow, priceSlow, Str("DIM /6000")),
                Row("FedEx (HK)", billedFdx, priceFdx, Str("DIM /5000 (<=15 kg)"))>>
  IN [avgPerPair |-> avgPerPair, vol |-> vol,
      dimFast |-> dimFast, dimSlow |-> dimSlow, dimFdx |-> dimFdx,
      billedFast |-> billedFast, billedSlow |-> billedSlow, billedFdx |-> billedFdx,
      rows |-> rows, best |-> Best(rows)]

\* the preset panel reads PRESET_CARTONS[pairs]!.L without a fallback
Render(m, p) ==
  IF m = "Preset" /\ PresetAt(p) = Undefined THEN "TypeError" ELSE "rendered"

(* ---------------- the render of the current state ---------------- *)
\* const carton = useMemo(...)
carton == Carton(mode, pairs, customL, customW, customH)

\* const calc = useMemo(...)
calc == Calc(pairs, totalWeight, carton)

\* "rendered", or the error the render of the current state throws; a render that
\* throws unmounts the component, which then takes no further events
ui == Render(mode, pairs)

(* ---------------- what is typed into the inputs ---------------- *)
PairsTexts ==
  {EmptyText, GarbageText, NumText(Num(5, 2))}
    \cup {NumText(Whole(k)) : k \in -1..MaxPairsInput}

\* hundredths of a kilogram
WeightTexts ==
  {EmptyText, GarbageText}
    \cup {NumText(Num(c, 100)) : c \in {-100, 0, 228, 320, 1500, 1501, 2000, 2001, 2500}}

LengthTexts == {EmptyText, NumText(Whole(37)), NumText(Whole(-10))}

WidthTexts == {GarbageText, NumText(Whole(26)), NumText(Whole(27))}

HeightTexts == {NumText(Num(29, 2)), NumText(Whole(28))}

FxTexts == {EmptyText, GarbageText, NumText(Whole(-1)), NumText(Num(72, 10))}

NoProbe == [fn |-> "none"]

(* ---------------- construction ---------------- *)
InitApp ==
  /\ pairs = Whole(2)
  /\ totalWeight = Num(32, 10)
  /\ mode = "Preset"
  /\ customL = Whole(37)
  /\ customW = Whole(26)
  /\ customH = Whole(28)
  /\ fx = Whole(0)

Init == InitApp /\ probe = NoProbe

(* ---------------- input handlers ---------------- *)
\* mutant: the pair count is stored unclamped
ChangePairs_Unclamped ==
  /\ ui = "rendered"
  /\ \E text \in PairsTexts : pairs' = OrElse(Number(text), Whole(1))
  /\ UNCHANGED <<totalWeight, mode, customL, customW, customH, fx, probe>>

\* setPairs(Math.max(1, Math.min(10, Number(e.target.value) || 1)))
ChangePairs ==
  /\ ui = "rendered"
  /\ \E text \in PairsTexts :
       pairs' = MathMax(Whole(1), MathMin(Whole(10), OrElse(Number(text), Whole(1))))
  /\ UNCHANGED <<totalWeight, mode, customL, customW, customH, fx, probe>>

\* mutant: no fallback for text that is not a number
ChangeTotalWeight_NoFallback ==
  /\ ui = "rendered"
  /\ \E text \in WeightTexts : totalWeight' = MathMax(Whole(0), Number(text))
  /\ UNCHANGED <<pairs, mode, customL, customW, customH, fx, probe>>

\* setTotalWeight(Math.max(0, Number(e.target.value) || 0))
ChangeTotalWeight ==
  /\ ui = "rendered"
  /\ \E text \in WeightTexts :
       totalWeight' = MathMax(Whole(0), OrElse(Number(text), Whole(0)))
  /\ UNCHANGED <<pairs, mode, customL, customW, customH, fx, probe>>

\* setMode(e.target.value)
ChangeMode ==
  /\ ui = "rendered"
  /\ \E option \in {"Preset", "Custom"} : mode' = option
  /\ UNCHANGED <<pairs, totalWeight, customL, customW, customH, fx, probe>>

\* setFx(Math.max(0, Number(e.target.value) || 0))
ChangeFx ==
  /\ ui = "rendered"
  /\ \E text \in FxTexts : fx' = MathMax(Whole(0), OrElse(Number(text), Whole(0)))
  /\ UNCHANGED <<pairs, totalWeight, mode, customL, customW, customH, probe>>

\* setCustomL(Number(e.target.value) || 0); the input exists in Custom mode only
ChangeCustomL ==
  /\ ui = "rendered"
  /\ mode = "Custom"
  /\ \E text \in LengthTexts : customL' = OrElse(Number(text), Whole(0))
  /\ UNCHANGED <<pairs, totalWeight, mode, customW, customH, fx, probe>>

\* setCustomW(Number(e.target.value) || 0)
ChangeCustomW ==
  /\ ui = "rendered"
  /\ mode = "Custom"
  /\ \E text \in WidthTexts : customW' = OrElse(Number(text), Whole(0))
  /\ UNCHANGED <<pairs, totalWeight, mode, customL, customH, fx, probe>>

\* setCustomH(Number(e.target.value) || 0)
ChangeCustomH ==
  /\ ui = "rendered"
  /\ mode = "Custom"
  /\ \E text \in HeightTexts : customH' = OrElse(Number(text), Whole(0))
  /\ UNCHANGED <<pairs, totalWeight, mode, customL, customW, fx, probe>>

Next ==
  \/ ChangePairs
  \/ ChangeTotalWeight
  \/ ChangeMode
  \/ ChangeFx
  \/ ChangeCustomL
  \/ ChangeCustomW
  \/ ChangeCustomH

Spec == Init /\ [][Next]_vars

(* ---------------- direct calls of the helpers ---------------- *)
\* raw weights around every half kilogram: on it, just above it, just below the next
RawWeights(lowestHalf) ==
  {Num(50 * h + e, 100) : h \in lowestHalf..MaxRawHalf, e \in {0, 1, 49}}

Tables == [UPS_FAST |-> UPS_FAST, UPS_SLOW |-> UPS_SLOW, FEDEX |-> FEDEX]

InitHelpers ==
  /\ InitApp
  /\ \/ \E a \in RawWeights(0), dm \in RawWeights(-2) :
          probe = [fn |-> "billedWeight", actualKg |-> a, dimKg |-> dm, done |-> FALSE]
     \/ \E t \in DOMAIN Tables, h \in -1..MaxBilledHalf :
          probe = [fn |-> "lookupRate", table |-> t, billed |-> Num(h, 2), done |-> FALSE]

CallBilledWeight ==
  /\ probe.fn = "billedWeight"
  /\ ~probe.done
  /\ probe' = [fn |-> "billedWeight", actualKg |-> probe.actualKg, dimKg |-> probe.dimKg,
               done |-> TRUE, out |-> billedWeight(probe.actualKg, probe.dimKg)]
  /\ UNCHANGED appVars

CallLookupRate ==
  /\ probe.fn = "lookupRate"
  /\ ~probe.done
  /\ probe' = [fn |-> "lookupRate", table |-> probe.table, billed |-> probe.billed,
               done |-> TRUE, out |-> lookupRate(Tables[probe.table], probe.billed)]
  /\ UNCHANGED appVars

NextHelpers ==
  \/ CallBilledWeight
  \/ CallLookupRate

SpecHelpers == InitHelpers /\ [][NextHelpers]_vars

(* ---------------- properties ---------------- *)
\* the rows that have a numeric cost
Priced(rs) == {i \in DOMAIN rs : TypeOf(rs[i].costRmb) = "number"}

IsHalfMultiple(x) == x.d \in {1, 2}

\* C1: best is the first row, in declaration order, whose cost is the minimum of
\* the defined costs: no priced row is cheaper, and no earlier row costs the same.
C1_BestIsFirstCheapest ==
  LET c == calc
      rs == c.rows
  IN Priced(rs) # {} =>
       \E i \in Priced(rs) :
         /\ c.best = rs[i]
         /\ \A j \in Priced(rs) : Le(rs[i].costRmb, rs[j].costRmb)
         /\ \A j \in Priced(rs) : j < i => rs[j].costRmb # rs[i].costRmb

\* two rows share the minimum cost and the earlier one is best
C1_Witness ==
  LET c == calc
      rs == c.rows
  IN \E i, j \in Priced(rs) :
       /\ i < j
       /\ rs[i].costRmb = rs[j].costRmb
       /\ \A k \in Priced(rs) : Le(rs[i].costRmb, rs[k].costRmb)
       /\ c.best = rs[i]

\* C2: billedWeight(actualKg, dimKg) is the smallest multiple of 0.5 kg that is
\* at least max(actualKg, dimKg): a multiple of 0.5, not below either weight, and
\* half a kilogram less would be below one of them.
C2_BilledIsLeastHalfMultiple ==
  (probe.fn = "billedWeight" /\ probe.done) =>
    /\ IsHalfMultiple(probe.out)
    /\ Le(probe.actualKg, probe.out)
    /\ Le(probe.dimKg, probe.out)
    /\ \/ Lt(Add(probe.out, Num(-1, 2)), probe.actualKg)
       \/ Lt(Add(probe.out, Num(-1, 2)), probe.dimKg)

\* 3.01 kg is billed as 3.5 kg
C2_Witness ==
  /\ probe.fn = "billedWeight"
  /\ probe.done
  /\ probe.actualKg = Num(301, 100)
  /\ probe.dimKg = Whole(3)
  /\ probe.out = Num(7, 2)

\* the tiers of a table whose ceiling is at least the billed weight
TiersCovering(table, billed) == {i \in DOMAIN table : Le(billed, table[i].key)}

\* C3: for a billed weight that is a multiple of 0.5 kg not above the highest
\* ceiling, lookupRate returns the price of the tier with the lowest ceiling that
\* is at least the billed weight.
C3_LookupIsLowestCoveringTier ==
  (probe.fn = "lookupRate" /\ probe.done) =>
    LET table == Tables[probe.table]
        covering == TiersCovering(table, probe.billed)
    IN covering # {} =>
         \E i \in covering :
           /\ \A j \in covering : Le(table[i].key, table[j].key)
           /\ probe.out = table[i].price

\* a billed weight equal to a tier ceiling below the top gets that tier's price
C3_Witness ==
  /\ probe.fn = "lookupRate"
  /\ probe.done
  /\ probe.table = "UPS_FAST"
  /\ probe.billed = Num(1, 2)
  /\ probe.out = Whole(310)

\* C4: a DIM carrier's cost is absent exactly when its billed weight is above its
\* range: above 20 kg for UPS Fast and UPS Slow, above 15 kg for FedEx (HK).
C4_AbsentIffAboveRange ==
  LET rs == calc.rows
  IN /\ (rs[2].costRmb = Undefined) <=> Lt(Whole(20), rs[2].billedKg)
     /\ (rs[3].costRmb = Undefined) <=> Lt(Whole(20), rs[3].billedKg)
     /\ (rs[4].costRmb = Undefined) <=> Lt(Whole(15), rs[4].billedKg)
     /\ \A i \in 2..4 : TypeOf(rs[i].costRmb) \in {"number", "undefined"}

\* FedEx is out of range at a billed weight at which UPS is still priced at the top
C4_Witness ==
  LET rs == calc.rows
  IN /\ rs[4].costRmb = Undefined
     /\ rs[2].billedKg = Whole(20)
     /\ rs[2].costRmb = Whole(1967)

\* C5: in Preset mode every pair count the input can store resolves to a usable
\* carton and handling the state raises no error.
C5_PresetNeverRaises ==
  mode = "Preset" =>
    /\ carton \in {PRESET_CARTONS[i] : i \in DOMAIN PRESET_CARTONS}
    /\ ui = "rendered"

\* C6: the USPS (singles) row costs pairs x (100 x (total / pairs) + 64), which is
\* 100 x total + 64 x pairs whatever the carton, and has no numeric billed weight.
C6_UspsFormula ==
  LET usps == calc.rows[1]
  IN /\ usps.carrier = "USPS (singles)"
     /\ usps.costRmb =
          Mul(pairs, Add(Mul(Whole(100), Div(totalWeight, pairs)), Whole(64)))
     /\ usps.costRmb = Add(Mul(Whole(100), totalWeight), Mul(Whole(64), pairs))
     /\ TypeOf(usps.billedKg) # "number"

\* scenario B (2 pairs, 3.2 kg: 448 RMB) in a custom carton
C6_Witness ==
  /\ pairs = Whole(2)
  /\ totalWeight = Num(32, 10)
  /\ mode = "Custom"
  /\ customH # Whole(28)
  /\ calc.rows[1].costRmb = Whole(448)

ScenarioA ==
  /\ carton = Box(74, 54, 29)
  /\ totalWeight = Num(32, 10)
  /\ pairs = Whole(2)

\* C7 as stated: in scenario A the volume is 14,504.25 cm3 and the UPS DIM weight
\* 2.417 kg, billed 3.5 kg, UPS Fast 510 RMB, UPS Slow 360 RMB.
C7_ScenarioA_AsStated ==
  ScenarioA =>
    LET c == calc
    IN /\ c.vol = Num(1450425, 100)
       /\ ToFixed(c.dimFast, 3) = Num(2417, 1000)
       /\ ToFixed(c.dimSlow, 3) = Num(2417, 1000)
       /\ c.billedFast = Num(7, 2)
       /\ c.billedSlow = Num(7, 2)
       /\ c.rows[2].costRmb = Whole(510)
       /\ c.rows[3].costRmb = Whole(360)

\* C7 amended: in scenario A the volume is 14,485.5 cm3 and the UPS DIM weight
\* 2.414 kg, billed 3.5 kg, UPS Fast 510 RMB, UPS Slow 360 RMB.
C7_ScenarioA ==
  ScenarioA =>
    LET c == calc
    IN /\ c.vol = Num(144855, 10)
       /\ ToFixed(c.dimFast, 3) = Num(2414, 1000)
       /\ ToFixed(c.dimSlow, 3) = Num(2414, 1000)
       /\ c.billedFast = Num(7, 2)
       /\ c.billedSlow = Num(7, 2)
       /\ c.rows[2].costRmb = Whole(510)
       /\ c.rows[3].costRmb = Whole(360)

\* scenario A is entered as a custom carton
C7_Witness == ScenarioA /\ mode = "Custom" /\ calc.rows[2].costRmb = Whole(510)

\* the billed weight of a carrier from its own divisor alone
IsBilledFor(b, divisor) ==
  LET dim == Div(Mul(Mul(carton.L, carton.W), carton.H), Whole(divisor))
  IN /\ IsHalfMultiple(b)
     /\ Le(totalWeight, b)
     /\ Le(dim, b)
     /\ Lt(Add(b, Num(-1, 2)), totalWeight) \/ Lt(Add(b, Num(-1, 2)), dim)

\* the price of a billed weight from the carrier's own table alone: the tier
\* declared at position 2 x billed (the first tier for a billed weight of 0)
PriceFor(table, b) ==
  LET tier == IF b.n = 0 THEN 1 ELSE Mul(b, Whole(2)).n
  IN IF tier \in DOMAIN table THEN table[tier].price ELSE Undefined

\* C8: the result has the four rows in declaration order, and each carrier's
\* billed weight and cost are those of its own divisor and table, whichever other
\* carriers are out of range.
C8_RowsIndependentInOrder ==
  LET rs == calc.rows
  IN /\ [i \in DOMAIN rs |-> rs[i].carrier]
          = <<"USPS (singles)", "UPS Fast", "UPS Slow", "FedEx (HK)">>
     /\ rs[1].costRmb = Add(Mul(Whole(100), totalWeight), Mul(Whole(64), pairs))
     /\ IsBilledFor(rs[2].billedKg, 6000)
     /\ IsBilledFor(rs[3].billedKg, 6000)
     /\ IsBilledFor(rs[4].billedKg, 5000)
     /\ rs[2].costRmb = PriceFor(UPS_FAST, rs[2].billedKg)
     /\ rs[3].costRmb = PriceFor(UPS_SLOW, rs[3].billedKg)
     /\ rs[4].costRmb = PriceFor(FEDEX, rs[4].billedKg)

\* FedEx is out of range, UPS is priced at a lower billed weight, and the rows
\* are not in price order
C8_Witness ==
  LET rs == calc.rows
  IN /\ rs[4].costRmb = Undefined
     /\ TypeOf(rs[3].costRmb) = "number"
     /\ Lt(rs[3].billedKg, rs[4].billedKg)
     /\ Lt(rs[3].costRmb, rs[2].costRmb)
     /\ Lt(rs[3].costRmb, rs[1].costRmb)

\* C9: the pair count in the state is always between 1 and 10, so the divisor
\* max(1, pairs) is the pair count itself.
C9_PairsClamped ==
  /\ Le(Whole(1), pairs)
  /\ Le(pairs, Whole(10))
  /\ MathMax(Whole(1), pairs) = pairs
  /\ calc.avgPerPair = Div(totalWeight, pairs)

\* after events on every input: the largest pair count, no weight, a negative
\* custom length and an FX rate
C9_Witness ==
  /\ pairs = Whole(10)
  /\ totalWeight = Whole(0)
  /\ mode = "Custom"
  /\ customL = Whole(-10)
  /\ fx # Whole(0)

====
